---- MODULE Spec2Model ----
(***************************************************************************)
(* en-yup-decorator: the metadata registry (src/src/metadata.ts), the      *)
(* schema compiler, nested resolver and schema registry (src/src/index.ts) *)
(* and the target-class schema (EnYupSchema).                              *)
(*                                                                         *)
(* A JavaScript Map is an insertion-ordered list of entries with unique    *)
(* keys.  Map objects are mutable and shared by reference, so the model    *)
(* keeps a heap of Map objects; the metadata map and the cache hold        *)
(* references into it.  yup schemas are immutable values.                  *)
(***************************************************************************)
EXTENDS Integers, Sequences, FiniteSets, TLC

(* ----- bounds ----- *)
MaxAdds == 3
MaxDecl == 2
MaxCompile == 2

(* ----- the universe of classes, property names and primitive rules ----- *)
ObjectClass == "Object"
Classes == {"A", "B"}
StorageClasses == Classes \cup {"C"}
\* D is a sibling of B that declares no property of its own
FindClasses == StorageClasses \cup {"D"}
AllClasses == FindClasses \cup {ObjectClass}
Properties == {"p", "q"}
RuleNames == {"r1", "r2"}

Null == [type |-> "null"]

\* Object.getPrototypeOf(X.prototype).constructor: class B extends A,
\* class C extends B, class D extends A; A extends nothing, so its
\* prototype's prototype is Object.prototype, which has no prototype.
PrototypeConstructor(c) ==
  CASE c = "B" -> [type |-> "class", name |-> "A"]
    [] c = "C" -> [type |-> "class", name |-> "B"]
    [] c = "D" -> [type |-> "class", name |-> "A"]
    [] c = "A" -> [type |-> "class", name |-> ObjectClass]
    [] OTHER -> Null

\* the prototype chain of c: c, its parent, ..., Object
RECURSIVE Chain(_)
Chain(c) ==
  IF PrototypeConstructor(c) = Null THEN {c}
  ELSE {c} \cup Chain(PrototypeConstructor(c).name)

PrimitiveRule(r) == [type |-> "prim", name |-> r]

(* ----- JavaScript Map ----- *)
MapKeys(m) == {m[i].k : i \in 1..Len(m)}
MapHas(m, key) == key \in MapKeys(m)
MapGet(m, key) == m[CHOOSE i \in 1..Len(m) : m[i].k = key].v
\* Map.prototype.set: an existing key keeps its position, a new key is
\* appended.
MapSet(m, key, value) ==
  IF MapHas(m, key)
    THEN [i \in 1..Len(m) |-> IF m[i].k = key THEN [k |-> key, v |-> value] ELSE m[i]]
    ELSE Append(m, [k |-> key, v |-> value])
\* new Map(iterable of entries)
RECURSIVE MapFromEntries(_)
MapFromEntries(entries) ==
  IF entries = <<>> THEN <<>>
  ELSE LET n == Len(entries)
       IN MapSet(MapFromEntries(SubSeq(entries, 1, n - 1)), entries[n].k, entries[n].v)

(* ----- heap of Map objects ----- *)
\* A Map object is named by its allocation site and the class it is
\* allocated for: metadata.ts:25 allocates at most one Map per target (the
\* own ClassMetadata), metadata.ts:61 allocates one per cache miss that
\* is then cached for good.
OwnRef(c) == [type |-> "ref", site |-> "own", class |-> c]
MergedRef(c) == [type |-> "ref", site |-> "merged", class |-> c]
Refs == {OwnRef(c) : c \in AllClasses} \cup {MergedRef(c) : c \in AllClasses}

VARIABLES
  storage,      \* the MetadataStorage object: _metadataMap, _metadataCache, and the heap of Maps they point to
  allSchemas,   \* _allSchemas: class -> compiled schema
  schemas,      \* _schemas: name -> compiled schema
  defined,      \* classes whose binding is initialised
  open,         \* the class whose decorators are being applied, or Null
  compiled,     \* per class, how many schema objects _defineSchema created for it
  pending,      \* asynchronous validations in flight
  nDecl,        \* number of rule registrations made so far
  ret           \* the last call and what it returned
vars == <<storage, allSchemas, schemas, defined, open, compiled, pending, nDecl, ret>>

(* ----- MetadataStorage ----- *)
NewStorage ==
  [metadataMap |-> [c \in AllClasses |-> Null],
   metadataCache |-> [c \in AllClasses |-> Null],
   heap |-> [r \in Refs |-> <<>>]]

\* mutant: a registration drops the cached resolution of its target
addSchemaMetadata_invalidate(s, target, property, schema) ==
  LET schemaMap == IF s.metadataMap[target] = Null THEN OwnRef(target) ELSE s.metadataMap[target]
  IN [s EXCEPT !.metadataMap[target] = schemaMap,
               !.metadataCache[target] = Null,
               !.heap[schemaMap] = MapSet(s.heap[schemaMap], property, schema)]

addSchemaMetadata(s, target, property, schema) ==
  LET schemaMap == IF s.metadataMap[target] = Null THEN OwnRef(target) ELSE s.metadataMap[target]
  IN [s EXCEPT !.metadataMap[target] = schemaMap,
               !.heap[schemaMap] = MapSet(s.heap[schemaMap], property, schema)]

\* mutant: push instead of unshift, the most derived class comes first
RECURSIVE InheritanceMaps_push(_, _, _)
InheritanceMaps_push(s, currentTarget, inheritanceMaps) ==
  LET schema == s.metadataMap[currentTarget]
      maps == IF schema # Null THEN inheritanceMaps \o <<schema>> ELSE inheritanceMaps
      next == PrototypeConstructor(currentTarget)
  IN IF next = Null THEN maps ELSE InheritanceMaps_push(s, next.name, maps)

\* the do/while of metadata.ts:42-50; unshift puts the ancestor's Map first
RECURSIVE InheritanceMaps(_, _, _)
InheritanceMaps(s, currentTarget, inheritanceMaps) ==
  LET schema == s.metadataMap[currentTarget]
      maps == IF schema # Null THEN <<schema>> \o inheritanceMaps ELSE inheritanceMaps
      next == PrototypeConstructor(currentTarget)
  IN IF next = Null THEN maps ELSE InheritanceMaps(s, next.name, maps)

\* mutant: the walk stops below the class that has no parent
RECURSIVE Walk_stopsEarly(_, _)
Walk_stopsEarly(currentTarget, visited) ==
  LET next == PrototypeConstructor(currentTarget)
  IN IF next = Null THEN visited
     ELSE Walk_stopsEarly(next.name, Append(visited, currentTarget))

\* the classes the do/while of metadata.ts:42-50 takes as currentTarget,
\* one per iteration, until the prototype of the prototype is null
RECURSIVE Walk(_, _)
Walk(currentTarget, visited) ==
  LET next == PrototypeConstructor(currentTarget)
  IN IF next = Null THEN Append(visited, currentTarget)
     ELSE Walk(next.name, Append(visited, currentTarget))

\* iterator.concat(...inheritanceMaps.map(map => Array.from(map.entries())))
RECURSIVE ConcatEntries(_, _)
ConcatEntries(s, maps) ==
  IF maps = <<>> THEN <<>>
  ELSE s.heap[Head(maps)] \o ConcatEntries(s, Tail(maps))

\* mutant: a chain without metadata resolves to an empty map, which is
\* cached
findSchemaMetadata_emptyMap(s, target) ==
  LET cachedValue == s.metadataCache[target]
      inheritanceMaps == InheritanceMaps(s, target, <<>>)
      schemaMap == MergedRef(target)
  IN IF cachedValue # Null
       THEN [storage |-> s, value |-> cachedValue, hit |-> TRUE]
     ELSE [storage |-> [s EXCEPT !.metadataCache[target] = schemaMap,
                                 !.heap[schemaMap] = MapFromEntries(ConcatEntries(s, inheritanceMaps))],
           value |-> schemaMap, hit |-> FALSE]

\* mutant: a miss also caches the result under the parent class
findSchemaMetadata_cacheChain(s, target) ==
  LET cachedValue == s.metadataCache[target]
      inheritanceMaps == InheritanceMaps(s, target, <<>>)
      schemaMap == MergedRef(target)
  IN IF cachedValue # Null
       THEN [storage |-> s, value |-> cachedValue, hit |-> TRUE]
     ELSE IF Len(inheritanceMaps) = 0
       THEN [storage |-> s, value |-> Null, hit |-> FALSE]
     ELSE [storage |-> [s EXCEPT !.metadataCache[target] = schemaMap,
                                 !.metadataCache[PrototypeConstructor(target).name] = schemaMap,
                                 !.heap[schemaMap] = MapFromEntries(ConcatEntries(s, inheritanceMaps))],
           value |-> schemaMap, hit |-> FALSE]

\* returns the storage after the call and the value returned (a Map
\* reference or Null)
findSchemaMetadata(s, target) ==
  LET cachedValue == s.metadataCache[target]
      inheritanceMaps == InheritanceMaps(s, target, <<>>)
      schemaMap == MergedRef(target)
  IN IF cachedValue # Null
       THEN [storage |-> s, value |-> cachedValue, hit |-> TRUE]
     ELSE IF Len(inheritanceMaps) = 0
       THEN [storage |-> s, value |-> Null, hit |-> FALSE]
     ELSE [storage |-> [s EXCEPT !.metadataCache[target] = schemaMap,
                                 !.heap[schemaMap] = MapFromEntries(ConcatEntries(s, inheritanceMaps))],
           value |-> schemaMap, hit |-> FALSE]

\* _schemas is a plain object literal, so a name is looked up along the
\* prototype chain: a name Object.prototype defines is found there when
\* the registry has no own entry for it
ObjectPrototypeKeys == {"toString"}
Names == {"n1"} \cup ObjectPrototypeKeys

(* ----- initial state ----- *)
NoCall == [op |-> "none"]

Init ==
  /\ storage = NewStorage
  /\ allSchemas = [c \in AllClasses |-> Null]
  /\ schemas = [n \in Names |-> Null]
  /\ defined = {}
  /\ open = Null
  /\ compiled = [c \in AllClasses |-> 0]
  /\ pending = {}
  /\ nDecl = 0
  /\ ret = NoCall

(* ----- MetadataStorage used on its own: any sequence of calls ----- *)
AddSchemaMetadata(target, property, schema) ==
  /\ nDecl < MaxAdds
  /\ storage' = addSchemaMetadata(storage, target, property, schema)
  /\ nDecl' = nDecl + 1
  /\ ret' = [op |-> "addSchemaMetadata", target |-> target, property |-> property,
             schema |-> schema, value |-> Null]
  /\ UNCHANGED <<allSchemas, schemas, defined, open, compiled, pending>>

FindSchemaMetadata(target) ==
  LET r == findSchemaMetadata(storage, target)
  IN /\ storage' = r.storage
     /\ ret' = [op |-> "findSchemaMetadata", target |-> target, value |-> r.value, hit |-> r.hit,
                visited |-> IF r.hit THEN <<>> ELSE Walk(target, <<>>)]
     /\ UNCHANGED <<allSchemas, schemas, defined, open, compiled, pending, nDecl>>

\* the rule object of the n-th registration: every registration passes a
\* schema object of its own (a.string() builds a new one at each call)
RuleObject(n) == PrimitiveRule("rule" \o ToString(n))

NextStorage ==
  \/ \E c \in StorageClasses, p \in Properties : AddSchemaMetadata(c, p, RuleObject(nDecl + 1))
  \/ \E c \in FindClasses : FindSchemaMetadata(c)

SpecStorage == Init /\ [][NextStorage]_vars

(* ----- schemas (immutable yup values) ----- *)
Undefined == [type |-> "undefined"]
ClassValue(c) == [type |-> "class", name |-> c]
\* refinement callbacks a caller may pass: none, or s => s.required(...)
NoCompose == "none"
Composers == {NoCompose, "required"}

\* yup.object(shape)
ObjectSchema(shape, oid) == [type |-> "object", fields |-> shape, tests |-> <<>>, oid |-> oid]

\* new EnYupSchema({shape, target}): type check `input instanceof target`,
\* an inner yup.object(shape) and one transform
EnYupSchema(shape, target, oid) ==
  [type |-> "en_yup_schema", target |-> target,
   schema |-> ObjectSchema(shape, oid), tests |-> <<>>, oid |-> oid]

createEnYupSchema(shape, target, useTargetClass, oid) ==
  IF useTargetClass THEN EnYupSchema(shape, target, oid) ELSE ObjectSchema(shape, oid)

\* the shape a compiled schema validates
ShapeOf(schema) == IF schema.type = "en_yup_schema" THEN schema.schema.fields ELSE schema.fields

\* compose?.(schema) ?? schema ; a yup refinement returns a clone carrying
\* one more test
ApplyCompose(compose, schema) ==
  IF compose = NoCompose THEN schema ELSE [schema EXCEPT !.tests = Append(@, compose)]

(* ----- schema registry, compiler and nested resolver ----- *)
\* A world is the module state the compiler works on: the MetadataStorage,
\* _allSchemas and the count of schema objects created per class.
World == [storage |-> storage, allSchemas |-> allSchemas, compiled |-> compiled]

\* what Object.prototype holds under an inherited name
InheritedValue(name) == [type |-> "function", name |-> name]

\* _schemas[name]: the own entry, else the inherited property, else
\* undefined
getNamedSchema(named, name) ==
  IF named[name] # Null THEN named[name]
  ELSE IF name \in ObjectPrototypeKeys THEN InheritedValue(name)
  ELSE Null

\* target instanceof Function ? target : target.constructor, then the
\* lookup; an undefined target makes target.constructor throw, which the
\* callers model
getSchemaByType(all, target) ==
  LET constructor == IF target.type = "class" THEN target.name ELSE target.ctor
  IN all[constructor]

\* Array.from(schemaMap?.entries() ?? []).reduce(...): one shape key per
\* entry, in entry order
ObjectShape(s, schemaMap) ==
  IF schemaMap = Null THEN <<>> ELSE MapFromEntries(s.heap[schemaMap])

\* mutant: the compiled schema is returned but not stored under the class
defineSchema_unregistered(w, target, compose, useTargetClass) ==
  LET found == findSchemaMetadata(w.storage, target)
      oid == [class |-> target, n |-> w.compiled[target] + 1]
      targetSchema == createEnYupSchema(ObjectShape(found.storage, found.value), target, useTargetClass, oid)
      composed == ApplyCompose(compose, targetSchema)
  IN [world |-> [storage |-> found.storage,
                 allSchemas |-> w.allSchemas,
                 compiled |-> [w.compiled EXCEPT ![target] = @ + 1]],
      value |-> composed]

\* mutant: the base schema is registered, the refined one returned
defineSchema_registersBase(w, target, compose, useTargetClass) ==
  LET found == findSchemaMetadata(w.storage, target)
      oid == [class |-> target, n |-> w.compiled[target] + 1]
      targetSchema == createEnYupSchema(ObjectShape(found.storage, found.value), target, useTargetClass, oid)
      composed == ApplyCompose(compose, targetSchema)
  IN [world |-> [storage |-> found.storage,
                 allSchemas |-> [w.allSchemas EXCEPT ![target] = targetSchema],
                 compiled |-> [w.compiled EXCEPT ![target] = @ + 1]],
      value |-> composed]

\* mutant: the rules that hold the schema the class had before are
\* switched to the new schema
defineSchema_relink(w, target, compose, useTargetClass) ==
  LET found == findSchemaMetadata(w.storage, target)
      oid == [class |-> target, n |-> w.compiled[target] + 1]
      targetSchema == createEnYupSchema(ObjectShape(found.storage, found.value), target, useTargetClass, oid)
      composed == ApplyCompose(compose, targetSchema)
      h == found.storage.heap
      relinked == [ref \in DOMAIN h |->
                     [i \in 1..Len(h[ref]) |->
                        IF h[ref][i].v = w.allSchemas[target]
                          THEN [k |-> h[ref][i].k, v |-> composed]
                          ELSE h[ref][i]]]
  IN [world |-> [storage |-> [found.storage EXCEPT !.heap = relinked],
                 allSchemas |-> [w.allSchemas EXCEPT ![target] = composed],
                 compiled |-> [w.compiled EXCEPT ![target] = @ + 1]],
      value |-> composed]

\* _defineSchema(target, {compose, useTargetClass})
defineSchema(w, target, compose, useTargetClass) ==
  LET found == findSchemaMetadata(w.storage, target)
      oid == [class |-> target, n |-> w.compiled[target] + 1]
      targetSchema == createEnYupSchema(ObjectShape(found.storage, found.value), target, useTargetClass, oid)
      composed == ApplyCompose(compose, targetSchema)
  IN [world |-> [storage |-> found.storage,
                 allSchemas |-> [w.allSchemas EXCEPT ![target] = composed],
                 compiled |-> [w.compiled EXCEPT ![target] = @ + 1]],
      value |-> composed]

\* mutant: the resolver always compiles
getObjectSchema_recompile(w, type, compose) ==
  defineSchema(w, type, compose, FALSE)

\* _getObjectSchema(type, {compose}); _defineSchema receives the same
\* options object, which has no useTargetClass
getObjectSchema(w, type, compose) ==
  LET schemaByType == getSchemaByType(w.allSchemas, ClassValue(type))
  IN IF schemaByType # Null
       THEN [world |-> w, value |-> ApplyCompose(compose, schemaByType)]
       ELSE defineSchema(w, type, compose, FALSE)

\* arraySchema.of(nestedElementSchema)
ArrayOf(elementSchema) == [type |-> "array", of |-> elementSchema]

\* _recordSchema(valueSchema, objectSchema): a lazy schema
recordSchema(valueSchema, objectSchema) ==
  [type |-> "lazy", valueSchema |-> valueSchema, objectSchema |-> objectSchema]

(* ----- class definition: decorators run at class-definition time ----- *)
\* `class c ...` is reached: the binding is initialised, then the property
\* decorators run in declaration order, then the class decorator.  A class
\* can only extend a class that already exists.
ClassBegin(c) ==
  /\ open = Null
  /\ c \notin defined
  /\ PrototypeConstructor(c).name \in defined \cup {ObjectClass}
  /\ defined' = defined \cup {c}
  /\ open' = ClassValue(c)
  /\ ret' = [op |-> "class", target |-> c]
  /\ UNCHANGED <<storage, allSchemas, schemas, compiled, pending, nDecl>>

\* a property of the class body is declared once
Declarable(property) ==
  /\ open # Null
  /\ nDecl < MaxDecl
  /\ ~MapHas(IF storage.metadataMap[open.name] = Null THEN <<>>
             ELSE storage.heap[storage.metadataMap[open.name]], property)

\* @is(schema)
Is(property, schema) ==
  /\ Declarable(property)
  /\ storage' = addSchemaMetadata(storage, open.name, property, schema)
  /\ nDecl' = nDecl + 1
  /\ ret' = [op |-> "is", target |-> open.name, property |-> property, thrown |-> "none"]
  /\ UNCHANGED <<allSchemas, schemas, defined, open, compiled, pending>>

\* mutant: the rule is registered before the type reference is resolved
NestedDecorator_writesFirst(op, property, type, compose, objectSchema) ==
  /\ Declarable(property)
  /\ nDecl' = nDecl + 1
  /\ IF type = Undefined \/ (type.name \notin defined \cup {ObjectClass})
       THEN /\ \E error \in {"TypeError", "ReferenceError"} :
                 /\ (type = Undefined => error = "TypeError")
                 /\ ret' = [op |-> op, target |-> open.name, property |-> property,
                            type |-> type, thrown |-> error]
            /\ open' = Null
            /\ storage' = addSchemaMetadata(storage, open.name, property, Undefined)
            /\ UNCHANGED <<allSchemas, compiled>>
       ELSE LET resolved == getObjectSchema(World, type.name, compose)
                schema == CASE op = "nestedArray" -> ArrayOf(resolved.value)
                            [] op = "nestedObject" -> recordSchema(resolved.value, objectSchema)
                            [] OTHER -> resolved.value
            IN /\ storage' = addSchemaMetadata(resolved.world.storage, open.name, property, schema)
               /\ allSchemas' = resolved.world.allSchemas
               /\ compiled' = resolved.world.compiled
               /\ ret' = [op |-> op, target |-> open.name, property |-> property,
                          type |-> type, thrown |-> "none", compose |-> compose,
                          value |-> resolved.value]
               /\ open' = open
  /\ UNCHANGED <<schemas, defined, pending>>

\* What a nested-property decorator does once it has its type reference.
\* A thunk naming a class whose binding is not initialised yields
\* undefined (hoisted var), so getSchemaByType throws TypeError on
\* undefined.constructor, or the thunk itself throws ReferenceError
\* (let/class binding); an undefined design type throws the TypeError.
\* Either way the decorator raises before any write and the class
\* definition is abandoned.
NestedDecorator(op, property, type, compose, objectSchema) ==
  /\ Declarable(property)
  /\ nDecl' = nDecl + 1
  /\ IF type = Undefined \/ (type.name \notin defined \cup {ObjectClass})
       THEN /\ \E error \in {"TypeError", "ReferenceError"} :
                 /\ (type = Undefined => error = "TypeError")
                 /\ ret' = [op |-> op, target |-> open.name, property |-> property,
                            type |-> type, thrown |-> error]
            /\ open' = Null
            /\ UNCHANGED <<storage, allSchemas, compiled>>
       ELSE LET resolved == getObjectSchema(World, type.name, compose)
                schema == CASE op = "nestedArray" -> ArrayOf(resolved.value)
                            [] op = "nestedObject" -> recordSchema(resolved.value, objectSchema)
                            [] OTHER -> resolved.value
            IN /\ storage' = addSchemaMetadata(resolved.world.storage, open.name, property, schema)
               /\ allSchemas' = resolved.world.allSchemas
               /\ compiled' = resolved.world.compiled
               /\ ret' = [op |-> op, target |-> open.name, property |-> property,
                          type |-> type, thrown |-> "none", compose |-> compose,
                          value |-> resolved.value]
               /\ open' = open
  /\ UNCHANGED <<schemas, defined, pending>>

\* @nestedType(() => x, elementSchema)
NestedType(property, x, elementSchema) ==
  NestedDecorator("nestedType", property, ClassValue(x), elementSchema, NoCompose)

\* @nested(schema): the type is the reflected design:type, which is a
\* class that exists, Object (emitted for a declared type that is no class
\* value at decoration time), or undefined when no metadata was emitted
Nested(property, designType, schema) ==
  /\ IF designType = Undefined THEN TRUE
     ELSE designType.name \in defined \cup {ObjectClass}
  /\ NestedDecorator("nested", property, designType, schema, NoCompose)

\* @nestedArray(() => x, arraySchema, elementSchema)
NestedArray(property, x, elementSchema) ==
  NestedDecorator("nestedArray", property, ClassValue(x), elementSchema, NoCompose)

\* @nestedObject(() => x, objectSchema, elementSchema)
NestedObject(property, x, objectSchema, elementSchema) ==
  NestedDecorator("nestedObject", property, ClassValue(x), elementSchema, objectSchema)

\* @schema({useTargetClass}) ends the class definition
SchemaDecorator(useTargetClass) ==
  /\ open # Null
  /\ LET r == defineSchema(World, open.name, NoCompose, useTargetClass)
     IN /\ storage' = r.world.storage
        /\ allSchemas' = r.world.allSchemas
        /\ compiled' = r.world.compiled
        /\ ret' = [op |-> "schema", target |-> open.name, value |-> r.value]
  /\ open' = Null
  /\ UNCHANGED <<schemas, defined, pending, nDecl>>

\* mutant: a name that is taken keeps its first schema
NamedSchemaDecorator_keepFirst(name, useTargetClass) ==
  /\ open # Null
  /\ LET r == defineSchema(World, open.name, NoCompose, useTargetClass)
     IN /\ storage' = r.world.storage
        /\ allSchemas' = r.world.allSchemas
        /\ compiled' = r.world.compiled
        /\ schemas' = IF schemas[name] = Null THEN [schemas EXCEPT ![name] = r.value] ELSE schemas
        /\ ret' = [op |-> "namedSchema", target |-> open.name, name |-> name, value |-> r.value]
  /\ open' = Null
  /\ UNCHANGED <<defined, pending, nDecl>>

\* mutant: the name receives a schema of its own, compiled in the other mode
NamedSchemaDecorator_separate(name, useTargetClass) ==
  /\ open # Null
  /\ LET r == defineSchema(World, open.name, NoCompose, useTargetClass)
     IN /\ storage' = r.world.storage
        /\ allSchemas' = r.world.allSchemas
        /\ compiled' = r.world.compiled
        /\ schemas' = [schemas EXCEPT ![name] =
                         defineSchema_unregistered(r.world, open.name, NoCompose, ~useTargetClass).value]
        /\ ret' = [op |-> "namedSchema", target |-> open.name, name |-> name, value |-> r.value]
  /\ open' = Null
  /\ UNCHANGED <<defined, pending, nDecl>>

\* @namedSchema(name, {useTargetClass}) ends the class definition
NamedSchemaDecorator(name, useTargetClass) ==
  /\ open # Null
  /\ LET r == defineSchema(World, open.name, NoCompose, useTargetClass)
     IN /\ storage' = r.world.storage
        /\ allSchemas' = r.world.allSchemas
        /\ compiled' = r.world.compiled
        /\ schemas' = [schemas EXCEPT ![name] = r.value]
        /\ ret' = [op |-> "namedSchema", target |-> open.name, name |-> name, value |-> r.value]
  /\ open' = Null
  /\ UNCHANGED <<defined, pending, nDecl>>

\* a class without class-level decorator (Office, Address in the tests)
ClassEnd ==
  /\ open # Null
  /\ open' = Null
  /\ ret' = [op |-> "classEnd", target |-> open.name]
  /\ UNCHANGED <<storage, allSchemas, schemas, defined, compiled, pending, nDecl>>

DesignTypes == {ClassValue(c) : c \in Classes \cup {ObjectClass}} \cup {Undefined}

Next ==
  \/ \E c \in Classes : ClassBegin(c)
  \/ \E p \in Properties, r \in RuleNames : Is(p, PrimitiveRule(r))
  \/ \E p \in Properties, x \in Classes, e \in Composers : NestedType(p, x, e)
  \/ \E p \in Properties, t \in DesignTypes, e \in Composers : Nested(p, t, e)
  \/ \E p \in Properties, x \in Classes : NestedArray(p, x, NoCompose)
  \/ \E p \in Properties, x \in Classes, o \in Composers : NestedObject(p, x, o, NoCompose)
  \/ \E u \in BOOLEAN : SchemaDecorator(u)
  \/ \E n \in Names, u \in BOOLEAN : NamedSchemaDecorator(n, u)
  \/ ClassEnd

Spec == Init /\ [][Next]_vars

(* ----- validation: the yup engine as far as EnYupSchema drives it ----- *)
\* A candidate object: its runtime constructor (Object for a plain object)
\* and how its property values fare against the rules of a shape: "ok"
\* (valid as they are), "coercible" (valid after yup's cast changed a
\* value) or "bad".
Qualities == {"ok", "coercible", "bad"}
Candidates == [type : {"object"}, ctor : Classes \cup {ObjectClass}, quality : Qualities]

\* input instanceof target
InstanceOf(value, target) == target \in Chain(value.ctor)

\* the plain object yup's object cast builds when a field value changed
CastCopy(value) == [type |-> "object", ctor |-> ObjectClass, quality |-> "ok", castOf |-> value]

\* new target(validData)
Construct(target, validData) ==
  [type |-> "object", ctor |-> target, quality |-> "ok", args |-> <<validData>>]

\* objectSchema.validateSync(value, {strict}) for yup.object(shape): the
\* cast returns the value itself when no field changed and a new plain
\* object otherwise; strict validation does not cast; a shape without
\* fields accepts every object unchanged
ObjectValidateSync(schema, value, strict) ==
  IF schema.fields = <<>> \/ value.quality = "ok" THEN [ok |-> TRUE, value |-> value]
  ELSE IF value.quality = "coercible" /\ ~strict THEN [ok |-> TRUE, value |-> CastCopy(value)]
  ELSE [ok |-> FALSE, error |-> "ValidationError"]

\* mutant: the transform constructs whatever the candidate is
Transform_always(schema, value) ==
  LET validData == ObjectValidateSync(schema.schema, value, FALSE)
  IN IF ~validData.ok THEN [ok |-> FALSE, error |-> validData.error, constructed |-> <<>>]
     ELSE [ok |-> TRUE, value |-> Construct(schema.target, validData.value),
           constructed |-> <<[class |-> schema.target, argument |-> validData.value]>>]

\* mutant: the constructor receives the candidate, not the validated data
Transform_raw(schema, value) ==
  LET validData == ObjectValidateSync(schema.schema, value, FALSE)
  IN IF ~validData.ok THEN [ok |-> FALSE, error |-> validData.error, constructed |-> <<>>]
     ELSE IF InstanceOf(value, schema.target)
       THEN [ok |-> TRUE, value |-> validData.value, constructed |-> <<>>]
     ELSE [ok |-> TRUE, value |-> Construct(schema.target, value),
           constructed |-> <<[class |-> schema.target, argument |-> value]>>]

\* the transform EnYupSchema installs: validate against the inner object
\* schema non-strictly, return validData for an instance of target, else
\* construct; constructed lists the constructor calls made
Transform(schema, value) ==
  LET validData == ObjectValidateSync(schema.schema, value, FALSE)
  IN IF ~validData.ok THEN [ok |-> FALSE, error |-> validData.error, constructed |-> <<>>]
     ELSE IF InstanceOf(value, schema.target)
       THEN [ok |-> TRUE, value |-> validData.value, constructed |-> <<>>]
     ELSE [ok |-> TRUE, value |-> Construct(schema.target, validData.value),
           constructed |-> <<[class |-> schema.target, argument |-> validData.value]>>]

\* schema.validate / schema.validateSync of a registered schema: unless
\* strict, the value goes through the transforms first; then the type check
\* (for en_yup_schema: instanceof target) and the tests run
Engine(schema, value, strict) ==
  IF schema.type = "object"
    THEN LET r == ObjectValidateSync(schema, value, strict)
         IN IF r.ok THEN [ok |-> TRUE, value |-> r.value, constructed |-> <<>>]
            ELSE [ok |-> FALSE, error |-> r.error, constructed |-> <<>>]
  ELSE LET cast == IF strict THEN [ok |-> TRUE, value |-> value, constructed |-> <<>>]
                   ELSE Transform(schema, value)
       IN IF ~cast.ok THEN cast
          ELSE IF ~InstanceOf(cast.value, schema.target)
            THEN [ok |-> FALSE, error |-> "typeError", constructed |-> cast.constructed]
          ELSE cast

(* ----- validation facade ----- *)
SchemaNames == {[type |-> "string", name |-> n] : n \in Names}
                 \cup {ClassValue(c) : c \in Classes} \cup {Undefined}

\* mutant: a class given as schemaName is ignored
getSchema_ownConstructor(object, schemaName) ==
  IF schemaName.type = "string" THEN getNamedSchema(schemas, schemaName.name)
  ELSE getSchemaByType(allSchemas, ClassValue(object.ctor))

\* _getSchema({object, schemaName}) for an object of object type
getSchema(object, schemaName) ==
  IF schemaName.type = "string" THEN getNamedSchema(schemas, schemaName.name)
  ELSE getSchemaByType(allSchemas, IF schemaName = Undefined THEN ClassValue(object.ctor) ELSE schemaName)

\* a value the lookup returned has the schema methods only if it is a
\* schema: undefined and the functions of Object.prototype have none
IsSchema(value) == value # Null /\ value.type \in {"object", "en_yup_schema"}

\* what a facade call yields: calling a method the looked-up value does
\* not have throws TypeError at the call
FacadeOutcome(object, schemaName, strict) ==
  LET objectSchema == getSchema(object, schemaName)
  IN IF ~IsSchema(objectSchema)
       THEN [status |-> "thrown", error |-> "TypeError", constructed |-> <<>>]
     ELSE LET r == Engine(objectSchema, object, strict)
          IN IF r.ok THEN [status |-> "value", value |-> r.value, constructed |-> r.constructed]
             ELSE [status |-> "failed", error |-> r.error, constructed |-> r.constructed]

\* the seven operations of the facade
FacadeOps == {"validate", "validateSync", "validateAt", "validateSyncAt",
              "isValid", "isValidSync", "cast"}
\* those that return a promise
AsyncOps == {"validate", "validateAt", "isValid"}
PathOps == {"validateAt", "validateSyncAt"}

\* values that are null or not of object type
NonObjects == {Null, [type |-> "boolean"]}
IsObjectType(object) == object # Null /\ object.type = "object"

\* no lookup was made
Unresolved == [type |-> "unresolved"]

\* mutant: an asynchronous operation reports the usage error by rejecting
NonObjectOutcome_rejects(op) ==
  [status |-> IF op \in AsyncOps THEN "failed" ELSE "thrown",
   error |-> "Cannot validate non object types", constructed |-> <<>>]

\* _getSchema throws inside the facade function, which is no async
\* function: the error is thrown at the call for every operation
NonObjectOutcome(op) ==
  [status |-> "thrown", error |-> "Cannot validate non object types", constructed |-> <<>>]

\* how a validation failure shows: a rejected promise, or a thrown error
Failure(op, error, constructed) ==
  [status |-> IF op \in AsyncOps THEN "failed" ELSE "thrown",
   error |-> error, constructed |-> constructed]

\* objectSchema.validateAt(path, object, options) and validateSyncAt: the
\* sub-schema is reached through the fields of an object schema, and a
\* schema without that field throws at the call; then the value at the
\* path is validated on its own
ValidateAtOutcome(op, objectSchema, object, path, strict) ==
  IF objectSchema.type # "object" \/ ~MapHas(objectSchema.fields, path)
    THEN [status |-> "thrown", error |-> "The schema does not contain the path",
          constructed |-> <<>>]
  ELSE IF object.quality = "bad" \/ (object.quality = "coercible" /\ strict)
    THEN Failure(op, "ValidationError", <<>>)
  ELSE [status |-> "value",
        value |-> [type |-> "field", of |-> object, path |-> path,
                   cast |-> (object.quality = "coercible")],
        constructed |-> <<>>]

\* objectSchema.cast(object, options): the transforms run whatever strict
\* is, nothing is validated, and the result must pass the type check
CastOutcome(objectSchema, object) ==
  IF objectSchema.type = "object"
    THEN [status |-> "value",
          value |-> IF object.quality = "coercible" /\ objectSchema.fields # <<>>
                      THEN CastCopy(object) ELSE object,
          constructed |-> <<>>]
  ELSE LET t == Transform(objectSchema, object)
       IN IF ~t.ok THEN [status |-> "thrown", error |-> t.error, constructed |-> t.constructed]
          ELSE IF ~InstanceOf(t.value, objectSchema.target)
            THEN [status |-> "thrown", error |-> "TypeError", constructed |-> t.constructed]
          ELSE [status |-> "value", value |-> t.value, constructed |-> t.constructed]

\* the call the facade makes on the schema it looked up
SchemaCall(op, objectSchema, object, path, strict) ==
  IF ~IsSchema(objectSchema)
    THEN [status |-> "thrown", error |-> "TypeError", constructed |-> <<>>]
  ELSE IF op \in PathOps THEN ValidateAtOutcome(op, objectSchema, object, path, strict)
  ELSE IF op = "cast" THEN CastOutcome(objectSchema, object)
  ELSE LET r == Engine(objectSchema, object, strict)
       IN IF op \in {"isValid", "isValidSync"}
            THEN [status |-> "value", value |-> r.ok, constructed |-> r.constructed]
          ELSE IF r.ok
            THEN [status |-> "value", value |-> r.value, constructed |-> r.constructed]
          ELSE Failure(op, r.error, r.constructed)

\* mutant: a lookup that finds nothing compiles and registers the class of
\* the object
Facade_compileOnMiss(op, object, schemaName, path, strict) ==
  /\ open = Null
  /\ ret' = [op |-> op, object |-> object, schemaName |-> schemaName,
             path |-> path, strict |-> strict,
             schema |-> IF IsObjectType(object) THEN getSchema(object, schemaName)
                        ELSE Unresolved,
             outcome |-> IF ~IsObjectType(object) THEN NonObjectOutcome(op)
                         ELSE IF op = "validate" THEN FacadeOutcome(object, schemaName, strict)
                         ELSE SchemaCall(op, getSchema(object, schemaName), object, path, strict)]
  /\ IF IsObjectType(object) /\ ~IsSchema(getSchema(object, schemaName))
       THEN LET r == defineSchema(World, object.ctor, NoCompose, FALSE)
            IN /\ storage' = r.world.storage
               /\ allSchemas' = r.world.allSchemas
               /\ compiled' = r.world.compiled
       ELSE UNCHANGED <<storage, allSchemas, compiled>>
  /\ UNCHANGED <<schemas, defined, open, pending, nDecl>>

\* a facade operation: _getSchema({object, schemaName}), then the method
\* of the schema.  schema is what the lookup returned; outcome is the
\* error thrown at the call ("thrown"), or the value returned, or for an
\* asynchronous operation how the returned promise settles ("value":
\* resolved, "failed": rejected)
Facade(op, object, schemaName, path, strict) ==
  /\ open = Null
  /\ ret' = [op |-> op, object |-> object, schemaName |-> schemaName,
             path |-> path, strict |-> strict,
             schema |-> IF IsObjectType(object) THEN getSchema(object, schemaName)
                        ELSE Unresolved,
             outcome |-> IF ~IsObjectType(object) THEN NonObjectOutcome(op)
                         ELSE IF op = "validate" THEN FacadeOutcome(object, schemaName, strict)
                         ELSE SchemaCall(op, getSchema(object, schemaName), object, path, strict)]
  /\ UNCHANGED <<storage, allSchemas, schemas, defined, open, compiled, pending, nDecl>>

\* validate({schemaName, object, options})
Validate(object, schemaName, strict) == Facade("validate", object, schemaName, "p", strict)

\* the program at run time: classes are defined with @is properties and a
\* class-level decorator, objects are validated between class definitions
NextRuntime ==
  \/ \E c \in Classes : ClassBegin(c)
  \/ \E p \in Properties : Is(p, PrimitiveRule("r1"))
  \/ \E u \in BOOLEAN : SchemaDecorator(u)
  \/ \E n \in Names, u \in BOOLEAN : NamedSchemaDecorator(n, u)
  \/ ClassEnd
  \/ \E o \in Candidates, k \in SchemaNames, strict \in BOOLEAN : Validate(o, k, strict)

SpecRuntime == Init /\ [][NextRuntime]_vars

(* ----- the public read API: lookups and the seven facade operations ----- *)
\* getNamedSchema(name), called by a client
GetNamedSchema(name) ==
  /\ open = Null
  /\ ret' = [op |-> "getNamedSchema", name |-> name, value |-> getNamedSchema(schemas, name)]
  /\ UNCHANGED <<storage, allSchemas, schemas, defined, open, compiled, pending, nDecl>>

\* getSchemaByType(target), called by a client with a class or an instance
GetSchemaByType(target) ==
  /\ open = Null
  /\ ret' = [op |-> "getSchemaByType", key |-> target,
             value |-> getSchemaByType(allSchemas, target)]
  /\ UNCHANGED <<storage, allSchemas, schemas, defined, open, compiled, pending, nDecl>>

\* the objects handed to the facade: instances and plain objects, valid
\* or not, and values that are no objects
FacadeObjects ==
  {o \in Candidates : o.quality = "ok" \/ (o.ctor = ObjectClass /\ o.quality = "bad")}
    \cup NonObjects
Instances == {o \in Candidates : o.quality = "ok"}

NextFacade ==
  \/ \E c \in Classes : ClassBegin(c)
  \/ Is("p", PrimitiveRule("r1"))
  \/ \E u \in BOOLEAN : SchemaDecorator(u)
  \/ \E n \in Names, u \in BOOLEAN : NamedSchemaDecorator(n, u)
  \/ ClassEnd
  \/ \E op \in FacadeOps, o \in FacadeObjects, k \in SchemaNames : Facade(op, o, k, "p", FALSE)
  \/ \E n \in Names : GetNamedSchema(n)
  \/ \E t \in {ClassValue(c) : c \in Classes} \cup Instances : GetSchemaByType(t)

SpecFacade == Init /\ [][NextFacade]_vars

(* ----- record-of-nested properties: the lazy schema at validation time ----- *)
\* The value found at a record property: undefined (the property is
\* missing), null, a primitive, an array, or an object whose own keys, in
\* Object.keys order, hold candidate entries.
RecordKeys == {"k1", "k2"}
EntryValues == {o \in Candidates : o.ctor = ObjectClass /\ o.quality # "coercible"}
RecordOf(entries) == [type |-> "object", ctor |-> ObjectClass, entries |-> entries]
RecordObjects ==
  {RecordOf(<<>>)}
    \cup {RecordOf(<<[k |-> key, v |-> e]>>) : key \in RecordKeys, e \in EntryValues}
    \cup {RecordOf(<<[k |-> "k1", v |-> e1], [k |-> "k2", v |-> e2]>>) : e1 \in EntryValues, e2 \in EntryValues}
RecordValues == RecordObjects \cup {Undefined, Null, [type |-> "boolean"], [type |-> "array"]}

\* object && typeof object === 'object' && !Array.isArray(object)
IsRecordObject(object) == object \notin {Undefined, Null} /\ object.type = "object"

\* mutant: the builder ignores the keys of the candidate
LazyBuilder_empty(lazy, object) ==
  ApplyCompose(lazy.objectSchema, ObjectSchema(<<>>, Null))

\* mutant: the fallback schema is not refined
LazyBuilder_unrefined(lazy, object) ==
  IF IsRecordObject(object)
    THEN ApplyCompose(lazy.objectSchema,
           ObjectSchema([i \in 1..Len(object.entries) |->
                           [k |-> object.entries[i].k, v |-> lazy.valueSchema]], Null))
    ELSE ObjectSchema(<<>>, Null)

\* the function handed to yup.lazy: yup calls it with the value under
\* validation and validates the value with the schema it returns
LazyBuilder(lazy, object) ==
  IF IsRecordObject(object)
    THEN ApplyCompose(lazy.objectSchema,
           ObjectSchema([i \in 1..Len(object.entries) |->
                           [k |-> object.entries[i].k, v |-> lazy.valueSchema]], Null))
    ELSE ApplyCompose(lazy.objectSchema, ObjectSchema(<<>>, Null))

\* the built object schema validates the value: an undefined value passes
\* an optional schema, null fails a schema that is not nullable, a value
\* that is no plain object fails the type check, and the fields of an
\* object are validated one by one against their schema
BuiltSchemaValidate(schema, value, strict) ==
  LET required == \E i \in 1..Len(schema.tests) : schema.tests[i] = "required"
      failing == {i \in 1..Len(schema.fields) :
                    ~Engine(schema.fields[i].v, value.entries[i].v, strict).ok}
  IN IF value = Undefined
       THEN IF required THEN [ok |-> FALSE, error |-> "required", paths |-> {}]
            ELSE [ok |-> TRUE, value |-> value]
     ELSE IF value = Null
       THEN [ok |-> FALSE, error |-> IF required THEN "required" ELSE "notNull", paths |-> {}]
     ELSE IF ~IsRecordObject(value)
       THEN [ok |-> FALSE, error |-> "typeError", paths |-> {}]
     ELSE IF failing # {}
       THEN [ok |-> FALSE, error |-> "ValidationError",
             paths |-> {schema.fields[i].k : i \in failing}]
     ELSE [ok |-> TRUE,
           value |-> RecordOf([i \in 1..Len(schema.fields) |->
                       [k |-> schema.fields[i].k,
                        v |-> Engine(schema.fields[i].v, value.entries[i].v, strict).value]])]

\* the engine validates the value of a record property of class c: the
\* lazy rule stored for the property builds the schema, which validates
ValidateRecord(c, property, value, strict) ==
  /\ open = Null
  /\ storage.metadataMap[c] # Null
  /\ MapHas(storage.heap[storage.metadataMap[c]], property)
  /\ LET rule == MapGet(storage.heap[storage.metadataMap[c]], property)
     IN /\ rule.type = "lazy"
        /\ ret' = [op |-> "lazy", target |-> c, property |-> property, rule |-> rule,
                   value |-> value, strict |-> strict,
                   schema |-> LazyBuilder(rule, value),
                   outcome |-> BuiltSchemaValidate(LazyBuilder(rule, value), value, strict)]
  /\ UNCHANGED <<storage, allSchemas, schemas, defined, open, compiled, pending, nDecl>>

\* classes with a primitive property p and a record property q
NextRecord ==
  \/ \E c \in Classes : ClassBegin(c)
  \/ Is("p", PrimitiveRule("r1"))
  \/ \E x \in Classes, o \in Composers : NestedObject("q", x, o, NoCompose)
  \/ \E u \in BOOLEAN : SchemaDecorator(u)
  \/ ClassEnd
  \/ \E c \in Classes, v \in RecordValues, strict \in BOOLEAN : ValidateRecord(c, "q", v, strict)

SpecRecord == Init /\ [][NextRecord]_vars

(* ----- the compiler on its own, and class-level decorators with options ----- *)
\* _defineSchema(target, {compose, useTargetClass}) applied to a class
\* that exists, with every combination of options
DefineSchema(target, compose, useTargetClass) ==
  /\ open = Null
  /\ target \in defined
  /\ compiled[target] < MaxCompile
  /\ LET r == defineSchema(World, target, compose, useTargetClass)
     IN /\ storage' = r.world.storage
        /\ allSchemas' = r.world.allSchemas
        /\ compiled' = r.world.compiled
        /\ ret' = [op |-> "defineSchema", target |-> target, compose |-> compose,
                   useTargetClass |-> useTargetClass, value |-> r.value]
  /\ UNCHANGED <<schemas, defined, open, pending, nDecl>>

\* @schema(options) where the options object also carries a refinement
\* callback: schema() hands _defineSchema a new options object holding
\* useTargetClass alone
SchemaDecoratorWith(useTargetClass, compose) ==
  /\ open # Null
  /\ LET r == defineSchema(World, open.name, NoCompose, useTargetClass)
     IN /\ storage' = r.world.storage
        /\ allSchemas' = r.world.allSchemas
        /\ compiled' = r.world.compiled
        /\ ret' = [op |-> "schema", target |-> open.name, compose |-> compose,
                   useTargetClass |-> useTargetClass, value |-> r.value]
  /\ open' = Null
  /\ UNCHANGED <<schemas, defined, pending, nDecl>>

\* @namedSchema(name, options), likewise
NamedSchemaDecoratorWith(name, useTargetClass, compose) ==
  /\ open # Null
  /\ LET r == defineSchema(World, open.name, NoCompose, useTargetClass)
     IN /\ storage' = r.world.storage
        /\ allSchemas' = r.world.allSchemas
        /\ compiled' = r.world.compiled
        /\ schemas' = [schemas EXCEPT ![name] = r.value]
        /\ ret' = [op |-> "namedSchema", target |-> open.name, name |-> name,
                   compose |-> compose, useTargetClass |-> useTargetClass, value |-> r.value]
  /\ open' = Null
  /\ UNCHANGED <<defined, pending, nDecl>>

NextCompiler ==
  \/ \E c \in Classes : ClassBegin(c)
  \/ \E p \in Properties : Is(p, PrimitiveRule("r1"))
  \/ \E u \in BOOLEAN, e \in Composers : SchemaDecoratorWith(u, e)
  \/ \E n \in Names, u \in BOOLEAN, e \in Composers : NamedSchemaDecoratorWith(n, u, e)
  \/ ClassEnd
  \/ \E c \in Classes, e \in Composers, u \in BOOLEAN : DefineSchema(c, e, u)

SpecCompiler == Init /\ [][NextCompiler]_vars

(* ----- nested declarations followed by a later compilation ----- *)
\* classes with plain and nested rules, and _defineSchema applied again to
\* a class that other classes already refer to
NextRecompile ==
  \/ \E c \in Classes : ClassBegin(c)
  \/ \E p \in Properties : Is(p, PrimitiveRule("r1"))
  \/ \E p \in Properties, x \in Classes, e \in Composers : NestedType(p, x, e)
  \/ \E u \in BOOLEAN : SchemaDecorator(u)
  \/ ClassEnd
  \/ \E c \in Classes, e \in Composers, u \in BOOLEAN : DefineSchema(c, e, u)

SpecRecompile == Init /\ [][NextRecompile]_vars

(* ----- asynchronous facade calls and their settlement ----- *)
\* promises that may be pending at the same time
MaxPending == 1

Pending == [status |-> "pending"]

\* validate, validateAt or isValid is called: _getSchema runs in the body
\* of the facade function, the method of the schema it returned is called
\* and its promise is returned.  An error thrown by _getSchema, by the
\* method lookup or by the path lookup of validateAt leaves no promise.
\* The promise belongs to the schema object the lookup returned.
CallAsync(op, object, schemaName, path, strict) ==
  /\ open = Null
  /\ op \in AsyncOps
  /\ LET objectSchema == IF IsObjectType(object) THEN getSchema(object, schemaName)
                         ELSE Unresolved
         atCall == IF ~IsObjectType(object) THEN NonObjectOutcome(op)
                   ELSE SchemaCall(op, objectSchema, object, path, strict)
         call == [op |-> op, object |-> object, schemaName |-> schemaName,
                  path |-> path, strict |-> strict, schema |-> objectSchema]
     IN IF atCall.status = "thrown"
          THEN /\ ret' = [op |-> op, object |-> object, schemaName |-> schemaName,
                          path |-> path, strict |-> strict, schema |-> objectSchema,
                          outcome |-> atCall]
               /\ pending' = pending
          ELSE /\ Cardinality(pending) < MaxPending
               /\ call \notin pending
               /\ pending' = pending \cup {call}
               /\ ret' = [op |-> op, object |-> object, schemaName |-> schemaName,
                          path |-> path, strict |-> strict, schema |-> objectSchema,
                          outcome |-> Pending]
  /\ UNCHANGED <<storage, allSchemas, schemas, defined, open, compiled, nDecl>>

\* mutant: the schema is looked up when the validation runs
Settle_lateLookup(call) ==
  /\ open = Null
  /\ call \in pending
  /\ pending' = pending \ {call}
  /\ ret' = [op |-> "settle", call |-> call,
             outcome |-> SchemaCall(call.op, getSchema(call.object, call.schemaName),
                                    call.object, call.path, call.strict)]
  /\ UNCHANGED <<storage, allSchemas, schemas, defined, open, compiled, nDecl>>

\* the promise of a pending call settles: the validation is the work of
\* the schema object whose method was called
Settle(call) ==
  /\ open = Null
  /\ call \in pending
  /\ pending' = pending \ {call}
  /\ ret' = [op |-> "settle", call |-> call,
             outcome |-> SchemaCall(call.op, call.schema, call.object, call.path, call.strict)]
  /\ UNCHANGED <<storage, allSchemas, schemas, defined, open, compiled, nDecl>>

AsyncObjects ==
  {o \in Candidates : o.ctor = "A" /\ o.quality \in {"ok", "bad"}} \cup {Null}
AsyncSchemaNames == {[type |-> "string", name |-> "n1"], Undefined}

\* classes are defined and registered, by type and under a name, between
\* the asynchronous calls and their settlement
NextAsync ==
  \/ \E c \in Classes : ClassBegin(c)
  \/ Is("p", PrimitiveRule("r1"))
  \/ \E u \in BOOLEAN : NamedSchemaDecorator("n1", u)
  \/ ClassEnd
  \/ \E c \in Classes : DefineSchema(c, NoCompose, FALSE)
  \/ \E op \in AsyncOps, o \in AsyncObjects, k \in AsyncSchemaNames : CallAsync(op, o, k, "p", FALSE)
  \/ \E call \in pending : Settle(call)

SpecAsync == Init /\ [][NextAsync]_vars

(* ----- vocabulary of the claims about the metadata registry ----- *)
\* the own ClassMetadata of class c, as an ordered list of entries
ClassMetadata(c) ==
  IF storage.metadataMap[c] = Null THEN <<>> ELSE storage.heap[storage.metadataMap[c]]

DeclaredKeys(c) == UNION {MapKeys(ClassMetadata(d)) : d \in Chain(c)}

\* the class of the chain of c that registers key and has no descendant in
\* the chain registering it
MostDerived(c, key) ==
  CHOOSE d \in Chain(c) :
    /\ key \in MapKeys(ClassMetadata(d))
    /\ \A e \in Chain(c) : key \in MapKeys(ClassMetadata(e)) => e \in Chain(d)

\* the Map a returned reference points to; an absent result has no entries
Returned(value) == IF value = Null THEN <<>> ELSE storage.heap[value]

IsOverrideMerge(m, c) ==
  /\ Len(m) = Cardinality(MapKeys(m))
  /\ MapKeys(m) = DeclaredKeys(c)
  /\ \A key \in MapKeys(m) : MapGet(m, key) = MapGet(ClassMetadata(MostDerived(c, key)), key)

\* C1: a findSchemaMetadata(C) call that misses the cache returns a map
\* whose keys are the union of the own keys of every class of C's chain,
\* each key bound to the rule of the most derived class registering it
\* (an absent result stands for no properties).
C1_MissReturnsOverrideMerge ==
  (ret.op = "findSchemaMetadata" /\ ~ret.hit) => IsOverrideMerge(Returned(ret.value), ret.target)

\* C1 witness: a miss on C (chain A, B, C) where B overrides a key of A
\* and C adds another key.
C1_Witness ==
  /\ ret.op = "findSchemaMetadata" /\ ~ret.hit /\ ret.target = "C"
  /\ MapKeys(ClassMetadata("A")) \cap MapKeys(ClassMetadata("B")) # {}
  /\ MapKeys(ClassMetadata("C")) # {}
  /\ Cardinality(DeclaredKeys("C")) = 2
  /\ \E key \in MapKeys(ClassMetadata("A")) \cap MapKeys(ClassMetadata("B")) :
        MapGet(ClassMetadata("A"), key) # MapGet(Returned(ret.value), key)

\* C3 (as claimed): whatever calls came before, the value returned by
\* findSchemaMetadata(C) is the override-merge of the current
\* ClassMetadata of C's chain.
C3_ReturnsCurrentMerge ==
  ret.op = "findSchemaMetadata" => IsOverrideMerge(Returned(ret.value), ret.target)

\* C4: once findSchemaMetadata(C) returned a map, the cache entry of C
\* keeps that reference and the map keeps its contents across every later
\* call (registrations on C or its ancestors included), every later
\* findSchemaMetadata(C) returns that reference, and the cached map is no
\* ClassMetadata map.
C4_CachedResultIsStable ==
  [][\A c \in FindClasses :
       /\ (ret'.op = "findSchemaMetadata" /\ ret'.target = c /\ ret'.value # Null)
             => storage'.metadataCache[c] = ret'.value
       /\ storage.metadataCache[c] # Null =>
             /\ storage'.metadataCache[c] = storage.metadataCache[c]
             /\ storage'.heap[storage.metadataCache[c]] = storage.heap[storage.metadataCache[c]]
             /\ \A d \in AllClasses : storage.metadataMap[d] # storage.metadataCache[c]
             /\ (ret'.op = "findSchemaMetadata" /\ ret'.target = c)
                   => (ret'.hit /\ ret'.value = storage.metadataCache[c])]_vars

\* C4 witness: a cache hit on B that returns a map which no longer equals
\* the merge of the current ClassMetadata, because ancestor A registered a
\* new property after B was resolved.
C4_Witness ==
  /\ ret.op = "findSchemaMetadata" /\ ret.hit /\ ret.target = "B"
  /\ MapKeys(ClassMetadata("A")) \ MapKeys(Returned(ret.value)) # {}

(* ----- claims about composition ----- *)
NestedOps == {"nested", "nestedType", "nestedArray", "nestedObject"}
ThunkOps == {"nestedType", "nestedArray", "nestedObject"}

\* the rule a nested decorator stores is built from the resolved schema
RuleBuiltFrom(rule, op, value) ==
  CASE op = "nestedArray" -> rule.type = "array" /\ rule.of = value
    [] op = "nestedObject" -> rule.type = "lazy" /\ rule.valueSchema = value
    [] OTHER -> rule = value

\* C2 (as claimed): when the class-level decorator of C has run after C's
\* property decorators, the shape of the schema registered for C has
\* exactly the properties declared on C and its ancestors, self-references
\* included.
C2_ShapeIsDeclaredProperties ==
  ret.op \in {"schema", "namedSchema"}
    => MapKeys(ShapeOf(allSchemas[ret.target])) = DeclaredKeys(ret.target)

\* C7 (as claimed): a nested property declared with a type thunk composes
\* whichever class is defined first: the decorator does not raise and the
\* property is bound to the compiled schema of the referenced class.
C7_ThunkReferenceComposes ==
  ret.op \in ThunkOps
    => /\ ret.thrown = "none"
       /\ allSchemas[ret.type.name] # Null
       /\ MapHas(ClassMetadata(ret.target), ret.property)

\* C8: when X is registered and a nested property referencing X is
\* declared, the resolved schema is the registered one passed through the
\* caller's refinement, the rule is built from it, nothing is compiled and
\* both registries stay as they are.
C8_RegisteredSchemaIsReused ==
  [][\A x \in Classes \cup {ObjectClass} :
       (/\ nDecl' = nDecl + 1
        /\ ret'.op \in NestedOps
        /\ ret'.type = ClassValue(x)
        /\ ret'.thrown = "none"
        /\ allSchemas[x] # Null)
       => /\ ret'.compose = NoCompose => ret'.value = allSchemas[x]
          /\ ret'.compose # NoCompose
               => ret'.value = [allSchemas[x] EXCEPT !.tests = Append(allSchemas[x].tests, ret'.compose)]
          /\ RuleBuiltFrom(storage'.heap[OwnRef(ret'.target)][Len(storage'.heap[OwnRef(ret'.target)])].v,
                           ret'.op, ret'.value)
          /\ storage'.heap[OwnRef(ret'.target)][Len(storage'.heap[OwnRef(ret'.target)])].k = ret'.property
          /\ compiled' = compiled
          /\ allSchemas' = allSchemas
          /\ schemas' = schemas]_vars

\* C8 witness: a nested declaration with a refinement on a class that was
\* registered before: the registry still holds the unrefined schema.
C8_Witness ==
  /\ ret.op \in NestedOps /\ ret.thrown = "none" /\ ret.compose = "required"
  /\ allSchemas[ret.type.name] # ret.value
  /\ ret.value = ApplyCompose("required", allSchemas[ret.type.name])

\* the resolved metadata of x as cached (absent: no properties)
ResolvedMetadata(s, x) ==
  IF s.metadataCache[x] = Null THEN <<>> ELSE s.heap[s.metadataCache[x]]

\* C9: when X has no compiled schema and a nested property referencing X
\* is declared, X is compiled in shape mode from its resolved metadata and
\* registered, so getSchemaByType(X) is non-absent right afterwards, and
\* the rule is built from that schema.
C9_UnregisteredClassIsCompiled ==
  [][\A x \in Classes \cup {ObjectClass} :
       (/\ nDecl' = nDecl + 1
        /\ ret'.op \in NestedOps
        /\ ret'.type = ClassValue(x)
        /\ ret'.thrown = "none"
        /\ allSchemas[x] = Null)
       => /\ getSchemaByType(allSchemas', ClassValue(x)) # Null
          /\ allSchemas'[x] = ret'.value
          /\ allSchemas'[x].type = "object"
          /\ allSchemas'[x].fields = ResolvedMetadata(storage', x)
          /\ compiled'[x] = compiled[x] + 1
          /\ RuleBuiltFrom(MapGet(storage'.heap[OwnRef(ret'.target)], ret'.property),
                           ret'.op, allSchemas'[x])]_vars

\* C9 witness: a nested declaration with a refinement whose refined result
\* is what the registry holds for the referenced class, which has
\* properties: the class was compiled by this declaration.
C9_Witness ==
  /\ ret.op \in NestedOps /\ ret.thrown = "none" /\ ret.compose = "required"
  /\ allSchemas[ret.type.name] = ret.value
  /\ ret.value.tests = <<"required">>
  /\ ret.value.fields # <<>>
  /\ ret.type.name # ret.target

\* C10: a compilation of C (by schema, namedSchema or the nested resolver)
\* leaves exactly the schema it returned under C, replacing what was there,
\* and touches no other class; namedSchema(n) leaves that schema under n,
\* replacing the entry of another class, and touches no other name;
\* without a compilation no entry changes.
C10_OneSchemaPerKey ==
  [][/\ \A c \in AllClasses :
          IF compiled'[c] # compiled[c]
            THEN /\ allSchemas'[c] = ret'.value
                 /\ allSchemas'[c].oid = [class |-> c, n |-> compiled[c] + 1]
                 /\ allSchemas'[c] # allSchemas[c]
                 /\ ret'.op \in {"schema", "namedSchema"} => ret'.target = c
                 /\ ret'.op \in NestedOps => ret'.type = ClassValue(c)
            ELSE allSchemas'[c] = allSchemas[c]
     /\ \A n \in Names :
          IF ret'.op = "namedSchema" /\ ret'.name = n /\ compiled' # compiled
            THEN schemas'[n] = ret'.value /\ schemas'[n] = allSchemas'[ret'.target]
            ELSE schemas'[n] = schemas[n]]_vars

\* C10 witness: namedSchema(n) on B, which a nested self-reference had
\* compiled before: the second schema object of B is what the type
\* registry and the name hold, while A keeps its own entry.
C10_Witness ==
  /\ ret.op = "namedSchema" /\ ret.target = "B"
  /\ schemas[ret.name] = ret.value
  /\ allSchemas["B"] = ret.value
  /\ ret.value.oid = [class |-> "B", n |-> 2]
  /\ allSchemas["A"] # Null
  /\ allSchemas["A"].oid.class = "A"

(* ----- claims about the target-class schema ----- *)
\* the candidate satisfies the shape as it is: the cast changes nothing
ValidAsIs(object, schema) == object.quality = "ok" \/ ShapeOf(schema) = <<>>
\* the candidate satisfies the shape, possibly after coercion
ValidCoerced(object, schema) == object.quality # "bad" \/ ShapeOf(schema) = <<>>
\* the plain data validation yields for a valid candidate
ValidatedData(object, schema) ==
  IF ValidAsIs(object, schema) THEN object
  ELSE [type |-> "object", ctor |-> ObjectClass, quality |-> "ok", castOf |-> object]

\* C5: for a target-class schema of X and a candidate that is an instance
\* of X, a successful validation yields the candidate itself and calls no
\* constructor, and a candidate that is valid as it is validates
\* successfully.
C5_InstanceIsPreserved ==
  (/\ ret.op = "validate"
   /\ ret.schema.type = "en_yup_schema"
   /\ InstanceOf(ret.object, ret.schema.target))
  => /\ ValidAsIs(ret.object, ret.schema) => ret.outcome.status = "value"
     /\ ret.outcome.status = "value" => ret.outcome.value = ret.object
     /\ ret.outcome.constructed = <<>>

\* C5 witness: a valid instance of B validated by the target-class schema
\* of B, whose shape has properties, comes back as itself.
C5_Witness ==
  /\ ret.op = "validate" /\ ret.schema.type = "en_yup_schema"
  /\ ret.schema.target = "B" /\ ret.object.ctor = "B" /\ ret.object.quality = "ok"
  /\ ShapeOf(ret.schema) # <<>>
  /\ ~ret.strict
  /\ ret.outcome.status = "value" /\ ret.outcome.value = ret.object

\* what C6 says of a call on a target-class schema with a candidate that
\* is no instance of the target
PlainIsConstructed ==
  IF ValidCoerced(ret.object, ret.schema)
    THEN /\ ret.outcome.status = "value"
         /\ ret.outcome.constructed =
              <<[class |-> ret.schema.target, argument |-> ValidatedData(ret.object, ret.schema)]>>
         /\ ret.outcome.value.ctor = ret.schema.target
         /\ ret.outcome.value.args = <<ValidatedData(ret.object, ret.schema)>>
    ELSE ret.outcome.constructed = <<>>

\* C6 (as claimed): for a target-class schema of X, a valid candidate that
\* is no instance of X yields a new X built by one constructor call on the
\* validated data; an invalid candidate calls no constructor.
C6_PlainIsConstructed ==
  (/\ ret.op = "validate"
   /\ ret.schema.type = "en_yup_schema"
   /\ ~InstanceOf(ret.object, ret.schema.target))
  => PlainIsConstructed

\* C6 (amended): the same when validation is not strict; under
\* options.strict the transform does not run, the candidate fails the
\* instance check and no constructor is called.
C6_PlainIsConstructedUnlessStrict ==
  (/\ ret.op = "validate"
   /\ ret.schema.type = "en_yup_schema"
   /\ ~InstanceOf(ret.object, ret.schema.target))
  => IF ret.strict
       THEN ret.outcome.status = "failed" /\ ret.outcome.constructed = <<>>
       ELSE PlainIsConstructed

\* C6 witness: a plain object that needs coercion becomes an instance of A
\* built from the coerced data.
C6_Witness ==
  /\ ret.op = "validate" /\ ret.schema.type = "en_yup_schema"
  /\ ret.schema.target = "A" /\ ret.object.ctor = ObjectClass
  /\ ret.object.quality = "coercible" /\ ShapeOf(ret.schema) # <<>>
  /\ ~ret.strict
  /\ ret.outcome.status = "value" /\ ret.outcome.value.ctor = "A"
  /\ ret.outcome.constructed # <<>>

(* ----- claims about lookups and the facade ----- *)
StringName(n) == [type |-> "string", name |-> n]

\* C11: a name holds the schema that the type registry holds for the class
\* the name was given to, so getNamedSchema(n) and getSchemaByType(C)
\* return the same schema and validating any input through n and through
\* C gives equal results.
C11_NameAndTypeAgree ==
  \A n \in Names :
    schemas[n] # Null =>
      LET c == schemas[n].oid.class
      IN /\ getNamedSchema(schemas, n) = getSchemaByType(allSchemas, ClassValue(c))
         /\ \A o \in Candidates, strict \in BOOLEAN :
              FacadeOutcome(o, StringName(n), strict) = FacadeOutcome(o, ClassValue(c), strict)

\* C11 witness: a plain object validated through a name of a
\* target-class schema with properties becomes an instance, as it does
\* through the class.
C11_Witness ==
  /\ ret.op = "validate" /\ ret.schemaName = StringName("n1")
  /\ ret.schema.type = "en_yup_schema" /\ ShapeOf(ret.schema) # <<>>
  /\ ret.object.ctor = ObjectClass
  /\ ret.outcome.status = "value" /\ ret.outcome.constructed # <<>>
  /\ ret.outcome = FacadeOutcome(ret.object, ClassValue(ret.schema.target), ret.strict)

\* the schema C12 expects a facade call to use
DispatchedSchema(object, schemaName) ==
  IF schemaName.type = "string" THEN schemas[schemaName.name]
  ELSE IF schemaName.type = "class" THEN allSchemas[schemaName.name]
  ELSE allSchemas[object.ctor]

\* C12: every facade operation on an object of object type uses the name
\* entry when schemaName is a string, the type entry of the class when
\* schemaName is a class, and the type entry of the object's constructor
\* when schemaName is omitted; with no such entry the call throws.
C12_SchemaIsDispatched ==
  (ret.op \in FacadeOps /\ IsObjectType(ret.object)) =>
    LET expected == DispatchedSchema(ret.object, ret.schemaName)
    IN IF expected # Null
         THEN /\ ret.schema = expected
              /\ ret.outcome = SchemaCall(ret.op, expected, ret.object, ret.path, ret.strict)
         ELSE /\ ~IsSchema(ret.schema)
              /\ ret.outcome.status = "thrown" /\ ret.outcome.error = "TypeError"

\* C12 witness: a call without schemaName on an instance of B uses B's
\* schema while the name n1 and the class A hold other schemas.
C12_Witness ==
  /\ ret.op = "isValidSync" /\ IsObjectType(ret.object) /\ ret.schemaName = Undefined
  /\ ret.object.ctor = "B" /\ IsSchema(ret.schema) /\ ret.schema = allSchemas["B"]
  /\ schemas["n1"] # Null /\ schemas["n1"] # ret.schema
  /\ allSchemas["A"] # Null /\ allSchemas["A"] # ret.schema

\* C13: a facade operation called with null or a value that is no object
\* throws 'Cannot validate non object types' at the call, whatever the
\* operation and the schemaName, looks nothing up and leaves the metadata
\* map, the cache and both registries as they were.
C13_NonObjectThrowsAtCall ==
  [][(ret' # ret /\ ret'.op \in FacadeOps /\ ~IsObjectType(ret'.object))
       => /\ ret'.outcome.status = "thrown"
          /\ ret'.outcome.error = "Cannot validate non object types"
          /\ ret'.schema = Unresolved
          /\ storage' = storage
          /\ allSchemas' = allSchemas
          /\ schemas' = schemas]_vars

\* C13 witness: the asynchronous validate called with null and a
\* registered name throws at the call.
C13_Witness ==
  /\ ret.op = "validate" /\ ret.object = Null
  /\ ret.schemaName = StringName("n1") /\ schemas["n1"] # Null
  /\ ret.outcome.status = "thrown"

\* C14 (as claimed): a lookup of a key that was never registered returns
\* absent, for a class or instance whatever its ancestors and descendants
\* hold, and for a name.
C14_MissIsAbsent ==
  /\ (ret.op = "getSchemaByType"
        /\ allSchemas[IF ret.key.type = "class" THEN ret.key.name ELSE ret.key.ctor] = Null)
       => ret.value = Null
  /\ (ret.op = "getNamedSchema" /\ schemas[ret.name] = Null) => ret.value = Null

\* the part of C14 about the type registry alone
C14_TypeMissIsAbsent ==
  (ret.op = "getSchemaByType"
     /\ allSchemas[IF ret.key.type = "class" THEN ret.key.name ELSE ret.key.ctor] = Null)
    => ret.value = Null

(* ----- claims about the record-of-nested schema ----- *)
\* the entry satisfies the element rule
EntrySatisfies(valueSchema, entry, strict) ==
  \/ ShapeOf(valueSchema) = <<>> /\ valueSchema.type = "object"
  \/ /\ entry.quality = "ok"
     /\ valueSchema.type = "en_yup_schema" => (~strict \/ InstanceOf(entry, valueSchema.target))
  \/ /\ ShapeOf(valueSchema) = <<>>
     /\ (~strict \/ InstanceOf(entry, valueSchema.target))

\* C15: for a candidate that is a non-null, non-array object the schema a
\* record property builds has exactly the candidate's own keys, each bound
\* to the nested element schema, with the caller's refinement applied
\* once; the entries that fail are exactly those that do not satisfy the
\* element rule.
C15_RecordShapeFollowsCandidate ==
  (ret.op = "lazy" /\ IsRecordObject(ret.value)) =>
    /\ ret.schema.type = "object"
    /\ Len(ret.schema.fields) = Len(ret.value.entries)
    /\ MapKeys(ret.schema.fields) = MapKeys(ret.value.entries)
    /\ \A i \in 1..Len(ret.schema.fields) : ret.schema.fields[i].v = ret.rule.valueSchema
    /\ ret.schema.tests =
         IF ret.rule.objectSchema = NoCompose THEN <<>> ELSE <<ret.rule.objectSchema>>
    /\ LET failing == {ret.value.entries[i].k : i \in
                         {j \in 1..Len(ret.value.entries) :
                            ~EntrySatisfies(ret.rule.valueSchema, ret.value.entries[j].v, ret.strict)}}
       IN IF failing = {} THEN ret.outcome.ok
          ELSE ~ret.outcome.ok /\ ret.outcome.paths = failing

\* C15 witness: a record of two entries, the second one invalid, under a
\* required record rule: only the second entry fails.
C15_Witness ==
  /\ ret.op = "lazy" /\ IsRecordObject(ret.value) /\ Len(ret.value.entries) = 2
  /\ ret.rule.objectSchema = "required"
  /\ ShapeOf(ret.rule.valueSchema) # <<>>
  /\ ~ret.outcome.ok /\ ret.outcome.paths = {"k2"}

\* the schema the fallback branch uses
FallbackSchema(rule) == ApplyCompose(rule.objectSchema, ObjectSchema(<<>>, Null))

\* C16 (as claimed): for a candidate that is no non-null, non-array
\* object the schema is the caller's refinement of an empty object schema
\* and validation fails with an object-type failure.
C16_NonObjectFailsTypeCheck ==
  (ret.op = "lazy" /\ ~IsRecordObject(ret.value)) =>
    /\ ret.schema = FallbackSchema(ret.rule)
    /\ ~ret.outcome.ok /\ ret.outcome.error = "typeError"

\* C16 (amended): the schema is the caller's refinement of an empty object
\* schema; a primitive or an array fails the object type check, null
\* fails because the schema is not nullable, and a missing (undefined)
\* value passes unless the refinement requires the property.
C16_NonObjectUsesFallback ==
  (ret.op = "lazy" /\ ~IsRecordObject(ret.value)) =>
    /\ ret.schema = FallbackSchema(ret.rule)
    /\ ret.value \notin {Undefined, Null} => (~ret.outcome.ok /\ ret.outcome.error = "typeError")
    /\ ret.value = Null => (~ret.outcome.ok /\ ret.outcome.error # "typeError")
    /\ ret.value = Undefined => (ret.outcome.ok <=> ret.rule.objectSchema # "required")

\* C16 witness: the value true under a required record rule fails the
\* object type check.
C16_Witness ==
  /\ ret.op = "lazy" /\ ret.value = [type |-> "boolean"]
  /\ ret.rule.objectSchema = "required"
  /\ ret.schema.tests = <<"required">> /\ ret.schema.fields = <<>>
  /\ ~ret.outcome.ok /\ ret.outcome.error = "typeError"

(* ----- claims about the order and the frame of the metadata registry ----- *)
\* the own entries of the classes of c's chain, root first
RECURSIVE ChainEntries(_, _)
ChainEntries(s, c) ==
  LET own == IF s.metadataMap[c] = Null THEN <<>> ELSE s.heap[s.metadataMap[c]]
  IN IF PrototypeConstructor(c) = Null THEN own
     ELSE ChainEntries(s, PrototypeConstructor(c).name) \o own

\* no property name is registered by two classes of c's chain
NoOverride(s, c) == Len(ChainEntries(s, c)) = Cardinality(MapKeys(ChainEntries(s, c)))

Pos(m, key) == CHOOSE i \in 1..Len(m) : m[i].k = key

\* the classes of c's chain that register key
Declarers(c, key) == {d \in Chain(c) : key \in MapKeys(ClassMetadata(d))}

\* C18 (as claimed): in a freshly resolved metadata of C a property name
\* that a class and one of its ancestors both register occurs once, among
\* the properties of the overriding class: after every property that only
\* proper ancestors of that class register.
C18_OverrideAtSubclassPosition ==
  (ret.op = "findSchemaMetadata" /\ ~ret.hit) =>
    LET m == Returned(ret.value)
    IN \A key \in MapKeys(m) :
         Cardinality(Declarers(ret.target, key)) > 1
           => /\ Cardinality({i \in 1..Len(m) : m[i].k = key}) = 1
              /\ \A other \in MapKeys(m) :
                   (/\ Cardinality(Declarers(ret.target, other)) = 1
                    /\ MostDerived(ret.target, other) # MostDerived(ret.target, key)
                    /\ MostDerived(ret.target, other) \in Chain(MostDerived(ret.target, key)))
                   => Pos(m, other) < Pos(m, key)

\* C19: addSchemaMetadata(C, p, r) binds p to r in C's own metadata and
\* leaves the other properties of C, the metadata of every other class,
\* the cache and the cached maps, and both schema registries as they were.
C19_AddWritesOneRule ==
  [][ret'.op = "addSchemaMetadata" /\ nDecl' # nDecl
       => LET c == ret'.target
              before == ClassMetadata(c)
              after == storage'.heap[storage'.metadataMap[c]]
          IN /\ MapGet(after, ret'.property) = ret'.schema
             /\ MapKeys(after) = MapKeys(before) \cup {ret'.property}
             /\ Len(after) = Cardinality(MapKeys(after))
             /\ \A q \in MapKeys(before) \ {ret'.property} :
                  MapGet(after, q) = MapGet(before, q) /\ Pos(after, q) = Pos(before, q)
             /\ \A d \in AllClasses \ {c} :
                  /\ storage'.metadataMap[d] = storage.metadataMap[d]
                  /\ storage'.heap[OwnRef(d)] = storage.heap[OwnRef(d)]
             /\ storage'.metadataCache = storage.metadataCache
             /\ \A d \in AllClasses : storage'.heap[MergedRef(d)] = storage.heap[MergedRef(d)]
             /\ allSchemas' = allSchemas
             /\ schemas' = schemas]_vars

\* C19 witness: a registration on B replaces the rule of a property that
\* the cached resolution of B still binds to the earlier rule.
C19_Witness ==
  /\ ret.op = "addSchemaMetadata" /\ ret.target = "B"
  /\ storage.metadataCache["B"] # Null
  /\ MapHas(ResolvedMetadata(storage, "B"), ret.property)
  /\ MapGet(ResolvedMetadata(storage, "B"), ret.property) # ret.schema
  /\ MapGet(ClassMetadata("B"), ret.property) = ret.schema

\* C20: findSchemaMetadata(C) writes no ClassMetadata and no cache entry
\* but C's: the entries of C's ancestors, siblings and descendants and
\* the maps they point to stay as they were, so a call is a hit only if
\* the queried class itself was resolved before.
C20_FindWritesOwnEntryOnly ==
  [][ret'.op = "findSchemaMetadata"
       => /\ \A d \in AllClasses \ {ret'.target} :
               /\ storage'.metadataCache[d] = storage.metadataCache[d]
               /\ storage'.heap[MergedRef(d)] = storage.heap[MergedRef(d)]
          /\ storage'.metadataMap = storage.metadataMap
          /\ \A d \in AllClasses : storage'.heap[OwnRef(d)] = storage.heap[OwnRef(d)]
          /\ ret'.hit => storage.metadataCache[ret'.target] # Null]_vars

\* C20 witness: after B and C were resolved, the first resolution of their
\* ancestor A misses the cache, and the sibling D is still unresolved.
C20_Witness ==
  /\ ret.op = "findSchemaMetadata" /\ ret.target = "A" /\ ~ret.hit /\ ret.value # Null
  /\ storage.metadataCache["B"] # Null /\ storage.metadataCache["C"] # Null
  /\ storage.metadataCache["D"] = Null

(* ----- claims about what the facade and the compiler write ----- *)
\* C21: no facade operation, whether it returns a value, fails validation
\* or finds no schema, changes the ClassMetadata map, the cache, the maps
\* they point to, the type registry or the name registry.
C21_FacadeWritesNothing ==
  [][ret'.op \in FacadeOps
       => /\ storage' = storage
          /\ allSchemas' = allSchemas
          /\ schemas' = schemas]_vars

\* C21 witness: a synchronous validation of an invalid plain object fails
\* against a registered schema with properties whose class is resolved.
C21_Witness ==
  /\ ret.op = "validateSync" /\ IsObjectType(ret.object) /\ IsSchema(ret.schema)
  /\ ret.outcome.status = "thrown" /\ ret.outcome.error = "ValidationError"
  /\ storage.metadataCache[ret.schema.oid.class] # Null
  /\ \E c \in Classes : allSchemas[c] = Null /\ c \in defined

\* C22: _defineSchema given a refinement builds the base schema in its
\* mode, applies the refinement to it once, and registers and returns the
\* refined schema; without a refinement it registers and returns the base
\* schema.
C22_RefinedSchemaIsRegistered ==
  [][(ret'.op = "defineSchema" /\ compiled' # compiled)
       => LET c == ret'.target
              base == createEnYupSchema(ResolvedMetadata(storage', c), c, ret'.useTargetClass,
                                        [class |-> c, n |-> compiled[c] + 1])
          IN /\ base.type = IF ret'.useTargetClass THEN "en_yup_schema" ELSE "object"
             /\ ret'.value = IF ret'.compose = NoCompose THEN base
                              ELSE [base EXCEPT !.tests = <<ret'.compose>>]
             /\ allSchemas'[c] = ret'.value]_vars

\* C22 witness: a target-class compilation with a refinement of a class
\* that has properties registers the refined target-class schema.
C22_Witness ==
  /\ ret.op = "defineSchema" /\ ret.useTargetClass /\ ret.compose = "required"
  /\ ret.value.type = "en_yup_schema" /\ ret.value.tests = <<"required">>
  /\ ShapeOf(ret.value) # <<>>
  /\ allSchemas[ret.target] = ret.value

\* C23 (as claimed): a refinement callback given to schema or namedSchema
\* is applied to the compiled schema of the decorated class, and the
\* refined schema is the one registered.
C23_ClassLevelRefinementApplies ==
  (ret.op \in {"schema", "namedSchema"} /\ ret.compose # NoCompose)
    => allSchemas[ret.target].tests = <<ret.compose>>

\* C24: when no class of C's chain has metadata, findSchemaMetadata(C)
\* returns absent and caches nothing, and a compilation of C registers and
\* returns a schema with an empty shape.
C24_NoMetadataCompilesEmptyShape ==
  [][\A c \in Classes :
       (compiled'[c] # compiled[c] /\ ChainEntries(storage, c) = <<>>
          /\ storage.metadataCache[c] = Null)
       => /\ findSchemaMetadata(storage, c).value = Null
          /\ storage' = storage
          /\ allSchemas'[c] # Null
          /\ allSchemas'[c] = ret'.value
          /\ ShapeOf(allSchemas'[c]) = <<>>]_vars

\* C24 witness: B and its parent A declare nothing, and the schema that
\* B's class-level decorator registers has an empty shape while B stays
\* unresolved.
C24_Witness ==
  /\ ret.op \in {"schema", "namedSchema"} /\ ret.target = "B"
  /\ ChainEntries(storage, "B") = <<>>
  /\ storage.metadataCache["B"] = Null
  /\ allSchemas["B"] # Null /\ ShapeOf(allSchemas["B"]) = <<>>

\* C25: a findSchemaMetadata(C) call that misses the cache walks C's
\* chain from C to the class without parent, one class per iteration and
\* each class once, and stops: the iterations are as many as the chain
\* has classes; a cache hit walks nothing.
C25_WalkVisitsChainOnce ==
  ret.op = "findSchemaMetadata" =>
    IF ret.hit THEN ret.visited = <<>>
    ELSE /\ Len(ret.visited) = Cardinality(Chain(ret.target))
         /\ {ret.visited[i] : i \in 1..Len(ret.visited)} = Chain(ret.target)
         /\ ret.visited[1] = ret.target
         /\ \A i \in 1..(Len(ret.visited) - 1) :
              PrototypeConstructor(ret.visited[i]) = ClassValue(ret.visited[i + 1])
         /\ PrototypeConstructor(ret.visited[Len(ret.visited)]) = Null

\* C25 witness: a miss on C walks C, B, A and Object.
C25_Witness ==
  /\ ret.op = "findSchemaMetadata" /\ ~ret.hit /\ ret.target = "C"
  /\ ret.visited = <<"C", "B", "A", ObjectClass>>

\* the type reference of the nested declaration that just ran is no class
\* value: undefined design type, or a thunk naming a class not yet bound
NoClassReference ==
  /\ nDecl' # nDecl
  /\ ret'.op \in NestedOps
  /\ IF ret'.type = Undefined THEN TRUE ELSE ret'.type.name \notin defined \cup {ObjectClass}

\* C26: a nested-property decorator that gets no class reference raises
\* before any write: the ClassMetadata maps, the cache, the type registry
\* and the name registry are as before, and the property has no rule.
C26_NoReferenceRaisesBeforeWrite ==
  [][NoClassReference =>
       /\ ret'.thrown # "none"
       /\ storage' = storage
       /\ allSchemas' = allSchemas
       /\ schemas' = schemas
       /\ compiled' = compiled
       /\ (ret.property \notin MapKeys(ClassMetadata(ret.target)))']_vars

\* C26 witness: after a rule was registered on the class, @nested() on a
\* property without design type has raised and abandoned the definition.
C26_Witness ==
  /\ ret.op = "nested" /\ ret.type = Undefined /\ ret.thrown = "TypeError"
  /\ open = Null
  /\ MapKeys(ClassMetadata(ret.target)) # {}
  /\ ret.property \notin MapKeys(ClassMetadata(ret.target))

\* a type thunk that yielded nothing has raised as well
C26_ThunkWitness ==
  /\ ret.op = "nestedType" /\ ret.thrown # "none" /\ ret.type # Undefined

\* C27: findSchemaMetadata(C) has just returned absent and a rule is then
\* registered on C or on an ancestor of C: a findSchemaMetadata(C) made in
\* the state after the registration returns a map, and the map holds the
\* rule under its property.
C27_AbsentIsNotCached ==
  [][(/\ ret.op = "findSchemaMetadata"
      /\ Returned(ret.value) = <<>>
      /\ nDecl' # nDecl
      /\ ret'.op = "addSchemaMetadata"
      /\ ret'.target \in Chain(ret.target))
     => LET r == findSchemaMetadata(storage', ret.target)
        IN /\ r.value # Null
           /\ MapHas(r.storage.heap[r.value], ret'.property)
           /\ MapGet(r.storage.heap[r.value], ret'.property) = ret'.schema]_vars

\* C27 witness: the only rule so far was registered on A, and
\* findSchemaMetadata(C), which had nothing to return before that
\* registration, has now returned it from a walk of the chain.
C27_Witness ==
  /\ ret.op = "findSchemaMetadata" /\ ret.target = "C" /\ ~ret.hit
  /\ nDecl = 1
  /\ ret.value # Null
  /\ ClassMetadata("A") # <<>>
  /\ Returned(ret.value) = ClassMetadata("A")

\* a nested declaration has just run and obtained its schema
NestedResolved ==
  /\ nDecl' # nDecl
  /\ ret'.op \in NestedOps
  /\ ret'.thrown = "none"

\* C28: a nested declaration with refinement r whose class X has no
\* registered schema registers r applied to the shape-mode schema of X; a
\* nested declaration without refinement whose class is registered
\* receives the registered schema as it is; a class-level decorator
\* registers a newly compiled schema without refinement.
C28_ResolverRegistersRefined ==
  [][/\ (NestedResolved /\ allSchemas[ret'.type.name] = Null) =>
          /\ allSchemas'[ret'.type.name] =
               ApplyCompose(ret'.compose, defineSchema(World, ret'.type.name, NoCompose, FALSE).value)
          /\ allSchemas'[ret'.type.name].type = "object"
          /\ ret'.value = allSchemas'[ret'.type.name]
     /\ (NestedResolved /\ allSchemas[ret'.type.name] # Null /\ ret'.compose = NoCompose) =>
          /\ ret'.value = allSchemas[ret'.type.name]
          /\ allSchemas' = allSchemas
     /\ (open # Null /\ open' = Null /\ ret'.op \in {"schema", "namedSchema"}) =>
          /\ allSchemas'[ret'.target] = ret'.value
          /\ ret'.value.tests = <<>>
          /\ ret'.value.oid = [class |-> ret'.target, n |-> compiled[ret'.target] + 1]]_vars

\* C28 witness: a nested declaration without refinement has received the
\* shape-mode schema an earlier refined declaration registered.
C28_Witness ==
  /\ ret.op \in NestedOps /\ ret.thrown = "none" /\ ret.compose = NoCompose
  /\ ret.value.type = "object"
  /\ ret.value.tests = <<"required">>
  /\ allSchemas[ret.type.name] = ret.value

\* the class-level decorator of a class has replaced the refined schema
\* its own nested declaration registered
C28_OverwriteWitness ==
  /\ ret.op = "schema"
  /\ compiled[ret.target] = 2
  /\ allSchemas[ret.target].tests = <<>>

\* the schema stored as the rule of property in the own ClassMetadata of a
RuleOf(a, property) == MapGet(ClassMetadata(a), property)

\* C29: a step that overwrites the type-registry entry of a class X
\* leaves the ClassMetadata of every class as it was and leaves the
\* compiled schema of every other class as it was; the rules keep the
\* schema X had when they were declared.
C29_RecompileLeavesReferrers ==
  [][\A x \in Classes :
       (allSchemas[x] # Null /\ allSchemas'[x] # allSchemas[x]) =>
         \A a \in Classes :
           /\ ClassMetadata(a)' = ClassMetadata(a)
           /\ (a # x => allSchemas'[a] = allSchemas[a])]_vars

\* C29 witness: B declared p as nested A and was compiled, then A was
\* compiled again: the rule of B and the compiled schema of B hold the
\* first schema of A, the type registry holds the second.
C29_Witness ==
  /\ ret.op = "defineSchema" /\ ret.target = "A"
  /\ allSchemas["A"].oid = [class |-> "A", n |-> 2]
  /\ MapHas(ClassMetadata("B"), "p")
  /\ RuleOf("B", "p").oid = [class |-> "A", n |-> 1]
  /\ allSchemas["B"] # Null
  /\ MapGet(ShapeOf(allSchemas["B"]), "p").oid = [class |-> "A", n |-> 1]

\* the schema the registries hold now for the object and schemaName of a
\* pending call
RegisteredFor(call) == getSchema(call.object, call.schemaName)

\* C30: an asynchronous facade call that returns a promise holds the
\* schema the registries had at the call; registering schemas leaves the
\* pending calls as they are; the promise settles with the outcome of
\* that schema on the object, whatever the registries hold by then.
C30_PendingUsesSchemaAtCall ==
  [][/\ \A call \in pending' \ pending :
          /\ call.schema = RegisteredFor(call)
          /\ IsSchema(call.schema)
     /\ (allSchemas' # allSchemas \/ schemas' # schemas) => pending' = pending
     /\ \A call \in pending \ pending' :
          /\ call \in pending
          /\ ret'.op = "settle" /\ ret'.call = call
          /\ ret'.outcome = SchemaCall(call.op, call.schema, call.object, call.path, call.strict)
          /\ ret'.outcome.status \in {"value", "failed"}]_vars

\* C30 witness: a promise has settled after its class or name was
\* registered again, and the schema registered now would have given
\* another outcome.
C30_Witness ==
  /\ ret.op = "settle"
  /\ RegisteredFor(ret.call) # ret.call.schema
  /\ ret.outcome # SchemaCall(ret.call.op, RegisteredFor(ret.call), ret.call.object,
                              ret.call.path, ret.call.strict)

====
